---- MODULE Spec2Model ----
(***************************************************************************)
(* Model of src/index.ts of storybook-addon-docs-stencil: the global       *)
(* stencil doc json slot, the two validators, the component lookup, the    *)
(* six facet mappers and the public entry points.                          *)
(*                                                                         *)
(* JavaScript values are records with the same fields whatever their type  *)
(* (t is the result of typeof, with "null" and "array" told apart), so     *)
(* that any two of them can be compared.  Text that the code converts or   *)
(* compares letter by letter (tags, names, keys) is a sequence of          *)
(* one-character strings; text that the code only passes through (docs,    *)
(* readme, signatures) is an opaque string.                                *)
(***************************************************************************)
EXTENDS Integers, Sequences, FiniteSets, TLC

VARIABLES docJson, lastSet, extractor, lastCall

vars == <<docJson, lastSet, extractor, lastCall>>

----------------------------------------------------------------------------
(* Characters and String.prototype.toUpperCase / toLowerCase (ASCII).      *)

LowerChars == <<"a","b","c","d","e","f","g","h","i","j","k","l","m",
                "n","o","p","q","r","s","t","u","v","w","x","y","z">>
UpperChars == <<"A","B","C","D","E","F","G","H","I","J","K","L","M",
                "N","O","P","Q","R","S","T","U","V","W","X","Y","Z">>
DigitChars == {"0","1","2","3","4","5","6","7","8","9"}

LowerSet == {LowerChars[i] : i \in 1..26}
UpperSet == {UpperChars[i] : i \in 1..26}

UpperOf == [c \in LowerSet |-> UpperChars[CHOOSE i \in 1..26 : LowerChars[i] = c]]
LowerOf == [c \in UpperSet |-> LowerChars[CHOOSE i \in 1..26 : UpperChars[i] = c]]

toUpperCase(s) == [k \in 1..Len(s) |-> IF s[k] \in LowerSet THEN UpperOf[s[k]] ELSE s[k]]
toLowerCase(s) == [k \in 1..Len(s) |-> IF s[k] \in UpperSet THEN LowerOf[s[k]] ELSE s[k]]

----------------------------------------------------------------------------
(* lodash words / camelCase / kebabCase on ASCII text.  Every ASCII        *)
(* character that is not a letter or a digit is a break character.  The    *)
(* word pattern is an alternation tried in order at each position:         *)
(*   1. Upper? lower+   followed by a break, an upper or the end           *)
(*   2. Upper+          followed by a break, an Upper lower pair or the end*)
(*   3. Upper? lower+                                                      *)
(*   4. Upper+                                                             *)
(*   5. digits                                                             *)
(* The two ordinal alternatives (1st, 2nd, 3rd, 4th ...) come before the   *)
(* digits; the names of the model have no letter directly after a digit    *)
(* that spells such a suffix, so they never match here.                    *)

CharClass(c) ==
  IF c \in LowerSet THEN "lower"
  ELSE IF c \in UpperSet THEN "upper"
  ELSE IF c \in DigitChars THEN "digit"
  ELSE "break"

ClassAt(s, j) == IF j > Len(s) THEN "end" ELSE CharClass(s[j])

\* index after the longest run of characters of class cls that starts at i
RunEnd(s, i, cls) ==
  CHOOSE j \in i..(Len(s) + 1) :
      /\ \A k \in i..(j - 1) : CharClass(s[k]) = cls
      /\ ClassAt(s, j) # cls

\* index after the word the pattern matches at i, or i when none starts there
WordEnd(s, i) ==
  LET c        == ClassAt(s, i)
      lowStart == IF c = "upper" THEN i + 1 ELSE i
      lowEnd   == RunEnd(s, lowStart, "lower")
      upEnd    == RunEnd(s, i, "upper")
  IN  IF c = "break" THEN i
      ELSE IF c = "digit" THEN RunEnd(s, i, "digit")
      ELSE IF lowEnd > lowStart /\ ClassAt(s, lowEnd) \in {"break", "upper", "end"}
           THEN lowEnd
      ELSE IF c = "upper" /\ ClassAt(s, upEnd) \in {"break", "end"}
           THEN upEnd
      ELSE IF c = "upper" /\ ClassAt(s, upEnd) = "lower" /\ upEnd - 1 > i
           THEN upEnd - 1
      ELSE IF lowEnd > lowStart THEN lowEnd
      ELSE upEnd

RECURSIVE WordsFrom(_, _)
WordsFrom(s, i) ==
  IF i > Len(s) THEN <<>>
  ELSE LET e == WordEnd(s, i)
       IN  IF e = i THEN WordsFrom(s, i + 1)
           ELSE <<SubSeq(s, i, e - 1)>> \o WordsFrom(s, e)

words(s) == WordsFrom(s, 1)

upperFirst(w) == IF w = <<>> THEN w ELSE toUpperCase(<<w[1]>>) \o Tail(w)

RECURSIVE CamelJoin(_, _)
CamelJoin(ws, index) ==
  IF index > Len(ws) THEN <<>>
  ELSE (IF index = 1 THEN toLowerCase(ws[index])
        ELSE upperFirst(toLowerCase(ws[index]))) \o CamelJoin(ws, index + 1)

RECURSIVE KebabJoin(_, _)
KebabJoin(ws, index) ==
  IF index > Len(ws) THEN <<>>
  ELSE (IF index = 1 THEN <<>> ELSE <<"-">>) \o toLowerCase(ws[index])
       \o KebabJoin(ws, index + 1)

camelCase(s) == CamelJoin(words(s), 1)
kebabCase(s) == KebabJoin(words(s), 1)

----------------------------------------------------------------------------
(* JavaScript values: tag names, documents, components, items.             *)

Undefined == [t |-> "undefined", s |-> <<>>, n |-> 0]
Null      == [t |-> "null",      s |-> <<>>, n |-> 0]
Str(s)    == [t |-> "string",    s |-> s,    n |-> 0]
Num(n)    == [t |-> "number",    s |-> <<>>, n |-> n]
Obj       == [t |-> "object",    s |-> <<>>, n |-> 0]

\* ToBoolean of a value
Truthy(v) ==
  CASE v.t = "undefined" -> FALSE
    [] v.t = "null"      -> FALSE
    [] v.t = "string"    -> v.s # <<>>
    [] v.t = "number"    -> v.n # 0
    [] OTHER             -> TRUE

\* an optional property holding text or a list: has = FALSE is undefined
NoText     == [has |-> FALSE, text |-> ""]
Text(x)    == [has |-> TRUE,  text |-> x]
NoName     == [has |-> FALSE, s |-> <<>>]
Name(s)    == [has |-> TRUE,  s |-> s]
NoList     == [has |-> FALSE, items |-> <<>>]
List(xs)   == [has |-> TRUE,  items |-> xs]

\* the components property of a document object
NoComponents      == [t |-> "undefined", items |-> <<>>]
ZeroComponents    == [t |-> "number",    items |-> <<>>]
ObjectComponents  == [t |-> "object",    items |-> <<>>]
ArrayComponents(cs) == [t |-> "array",   items |-> cs]

\* documents: undefined, null, a number, or an object with a components property
UndefinedDoc == [t |-> "undefined", n |-> 0, components |-> NoComponents]
NullDoc      == [t |-> "null",      n |-> 0, components |-> NoComponents]
NumDoc(n)    == [t |-> "number",    n |-> n, components |-> NoComponents]
ObjDoc(c)    == [t |-> "object",    n |-> 0, components |-> c]

DocTruthy(d) ==
  CASE d.t = "undefined" -> FALSE
    [] d.t = "null"      -> FALSE
    [] d.t = "number"    -> d.n # 0
    [] OTHER             -> TRUE

ComponentsTruthy(c) == c.t \in {"object", "array"}

NoComponent ==
  [tag |-> <<>>, readme |-> NoText, docs |-> NoText,
   props |-> NoList, events |-> NoList, methods |-> NoList,
   slots |-> NoList, styles |-> NoList, parts |-> NoList]

----------------------------------------------------------------------------
(* Completions of a call: a returned value or a thrown Error.              *)

TagNameMessage  == "Provided component needs to be a string"
MetaDataMessage == "You need to setup valid meta data"

EmptyArgTypes == [k \in {} |-> 0]

\* val: "value", "null" or "undefined" tells what was returned; argTypes or
\* text hold a returned value, metaData the record the lookup resolved, and
\* warnings counts the calls of logger.warn
Completion(kind, error, val, metaData, argTypes, text, warnings) ==
  [kind |-> kind, error |-> error, val |-> val, metaData |-> metaData,
   argTypes |-> argTypes, text |-> text, warnings |-> warnings]

Throw(message) == Completion("throw", message, "undefined", NoComponent, EmptyArgTypes, NoText, 0)

----------------------------------------------------------------------------
(* Validators and component lookup.                                        *)

\* variant: any non-empty value passes for a tag name
isValidComponentAnyTruthy(tagName) ==
  IF ~Truthy(tagName) THEN "false" ELSE "true"

\* "true", "false" or "throw"
isValidComponent(tagName) ==
  IF ~Truthy(tagName) THEN "false"
  ELSE IF tagName.t = "string" THEN "true"
  ELSE "throw"

\* variant: components is only tested for being set, not for being a list
isValidMetaDataTruthyOnly(stencilDocJson) ==
  IF ~DocTruthy(stencilDocJson) THEN "false"
  ELSE IF ComponentsTruthy(stencilDocJson.components) THEN "true"
  ELSE "throw"

isValidMetaData(stencilDocJson) ==
  IF ~DocTruthy(stencilDocJson) THEN "false"
  ELSE IF ComponentsTruthy(stencilDocJson.components)
          /\ stencilDocJson.components.t = "array" THEN "true"
  ELSE "throw"

\* variant: the tags are compared as written
FindComponentExact(components, tagName) ==
  LET hits == {i \in 1..Len(components) : components[i].tag = tagName.s}
  IN  IF hits = {} THEN 0 ELSE CHOOSE i \in hits : \A j \in hits : i <= j

\* Array.prototype.find with the upper-case comparison of the tags:
\* the index of the first match, 0 when there is none
FindComponent(components, tagName) ==
  LET hits == {i \in 1..Len(components) :
                  toUpperCase(components[i].tag) = toUpperCase(tagName.s)}
  IN  IF hits = {} THEN 0 ELSE CHOOSE i \in hits : \A j \in hits : i <= j

\* variant: the document is validated before the tag name
getMetaDataDocumentFirst(tagName, stencilDocJson) ==
  LET vm == isValidMetaData(stencilDocJson)
      vc == IF vm = "true" THEN isValidComponent(tagName) ELSE "skipped"
  IN  IF vm = "throw" THEN Throw(MetaDataMessage)
      ELSE IF vm = "false" THEN
        Completion("return", "", "null", NoComponent, EmptyArgTypes, NoText, 0)
      ELSE IF vc = "throw" THEN Throw(TagNameMessage)
      ELSE IF vc = "false" THEN
        Completion("return", "", "null", NoComponent, EmptyArgTypes, NoText, 0)
      ELSE LET i == FindComponent(stencilDocJson.components.items, tagName)
           IN  IF i = 0
               THEN Completion("return", "", "undefined", NoComponent, EmptyArgTypes, NoText, 1)
               ELSE Completion("return", "", "value",
                               stencilDocJson.components.items[i], EmptyArgTypes, NoText, 0)

getMetaData(tagName, stencilDocJson) ==
  LET vc == isValidComponent(tagName)
      \* the right operand of || is evaluated only when the left one is false
      vm == IF vc = "true" THEN isValidMetaData(stencilDocJson) ELSE "skipped"
  IN  IF vc = "throw" THEN Throw(TagNameMessage)
      ELSE IF vc = "false" THEN
        Completion("return", "", "null", NoComponent, EmptyArgTypes, NoText, 0)
      ELSE IF vm = "throw" THEN Throw(MetaDataMessage)
      ELSE IF vm = "false" THEN
        Completion("return", "", "null", NoComponent, EmptyArgTypes, NoText, 0)
      ELSE LET i == FindComponent(stencilDocJson.components.items, tagName)
           IN  IF i = 0
               THEN Completion("return", "", "undefined", NoComponent, EmptyArgTypes, NoText, 1)
               ELSE Completion("return", "", "value",
                               stencilDocJson.components.items[i], EmptyArgTypes, NoText, 0)

----------------------------------------------------------------------------
(* Facet mappers.  An ArgTypes object is a function from keys to           *)
(* descriptors; the order in which a JavaScript object lists its keys is   *)
(* not modelled.                                                           *)

\* literal values of a prop's permitted values
StrLit(x) == [t |-> "string", text |-> x, n |-> 0]
NumLit(n) == [t |-> "number", text |-> "", n |-> n]
BoolLit(x) == [t |-> "boolean", text |-> x, n |-> 0]
NoLit      == [t |-> "undefined", text |-> "", n |-> 0]

\* options: { dashCase } with the property possibly missing;
\* dashCase is "true", "false", "undefined" or "yes" (a truthy non-boolean)
NoOptions       == [has |-> FALSE, dashCase |-> "undefined"]
DashCase(value) == [has |-> TRUE,  dashCase |-> value]

\* variant: dashCase ? kebabCase(key) : camelCase(key)
ConvertKeyTruthy(key, options) ==
  IF options.dashCase \in {"true", "yes"} THEN kebabCase(key) ELSE camelCase(key)

\* key = dashCase === true ? kebabCase(key) : camelCase(key)
ConvertKey(key, options) ==
  IF options.dashCase = "true" THEN kebabCase(key) ELSE camelCase(key)

\* acc[key] = descriptor
Put(acc, key, descriptor) ==
  [k \in DOMAIN acc \cup {key} |-> IF k = key THEN descriptor ELSE acc[k]]

\* fields a facet does not set are "unset" (strings) or has = FALSE
Descriptor(name, description, control, category) ==
  [name |-> name, description |-> description, control |-> control,
   category |-> category, hasOptions |-> FALSE, options |-> <<>>,
   action |-> NoName, typeRequired |-> "unset", typeName |-> "unset",
   required |-> "unset", tableTypeSummary |-> "unset",
   tableTypeName |-> "unset", defaultValue |-> "unset"]

\* item.values.filter(type is string or number).map(value => value.value)
mapItemValuesToOptions(item) ==
  LET keep == SelectSeq(item.values, LAMBDA value : value.type \in {"string", "number"})
  IN  [i \in 1..Len(keep) |-> keep[i].value]

\* variant: a radio control up to and including five options
mapPropTypeToControlUpToFive(item) ==
  CASE item.type = "string"  -> [control |-> "text",    options |-> NoList]
    [] item.type = "number"  -> [control |-> "number",  options |-> NoList]
    [] item.type = "boolean" -> [control |-> "boolean", options |-> NoList]
    [] item.type \in {"function", "void"} -> [control |-> "null", options |-> NoList]
    [] OTHER ->
         LET options == mapItemValuesToOptions(item)
         IN  [control |-> IF Len(options) = 0 THEN "object"
                          ELSE IF Len(options) <= 5 THEN "radio"
                          ELSE "select",
              options |-> List(options)]

\* control is "null" for no control; options.has = FALSE is options === null
mapPropTypeToControl(item) ==
  CASE item.type = "string"  -> [control |-> "text",    options |-> NoList]
    [] item.type = "number"  -> [control |-> "number",  options |-> NoList]
    [] item.type = "boolean" -> [control |-> "boolean", options |-> NoList]
    [] item.type \in {"function", "void"} -> [control |-> "null", options |-> NoList]
    [] OTHER ->
         LET options == mapItemValuesToOptions(item)
         IN  [control |-> IF Len(options) = 0 THEN "object"
                          ELSE IF Len(options) < 5 THEN "radio"
                          ELSE "select",
              options |-> List(options)]

\* item.attr || item.name
AttrOrName(item) == IF item.attr.has /\ item.attr.s # <<>> THEN item.attr.s ELSE item.name

PropDescriptor(item) ==
  LET c == mapPropTypeToControl(item)
      d == [Descriptor(Name(AttrOrName(item)), item.docs, c.control, "props")
              EXCEPT !.typeRequired = IF item.required THEN "true" ELSE "false",
                     !.tableTypeSummary = item.type,
                     !.defaultValue = item.default]
  IN  IF c.options.has
      THEN [d EXCEPT !.hasOptions = TRUE, !.options = c.options.items]
      ELSE d

RECURSIVE PropsReduce(_, _, _, _)
PropsReduce(data, options, i, acc) ==
  IF i > Len(data) THEN acc
  ELSE PropsReduce(data, options, i + 1,
         Put(acc, ConvertKey(AttrOrName(data[i]), options), PropDescriptor(data[i])))

\* data && data.reduce(...): has = FALSE is the undefined list handed back
mapPropsData(data, options) ==
  IF ~data.has THEN [has |-> FALSE, map |-> EmptyArgTypes]
  ELSE [has |-> TRUE, map |-> PropsReduce(data.items, options, 1, EmptyArgTypes)]

EventPrefix  == <<"e","v","e","n","t","-">>
MethodPrefix == <<"m","e","t","h","o","d","-">>
SlotPrefix   == <<"s","l","o","t","-">>
DefaultSlot  == <<"_","d","e","f","a","u","l","t">>
StylesCategoryKey == <<"c","s","s"," ","c","u","s","t","o","m"," ",
                       "p","r","o","p","e","r","t","i","e","s">>
PartsCategoryKey  == <<"c","s","s"," ","s","h","a","d","o","w"," ","p","a","r","t","s">>
StylesCategory == "css custom properties"
PartsCategory  == "css shadow parts"

EventDescriptor(item) ==
  [Descriptor(Name(item.event), item.docs, "null", "events")
     EXCEPT !.action = Name(item.event), !.typeName = "void",
            !.tableTypeSummary = item.detail]

RECURSIVE EventsReduce(_, _, _, _)
EventsReduce(data, options, i, acc) ==
  IF i > Len(data) THEN acc
  ELSE EventsReduce(data, options, i + 1,
         Put(acc, ConvertKey(EventPrefix \o data[i].event, options),
             EventDescriptor(data[i])))

mapEventsData(data, options) ==
  IF ~data.has THEN [has |-> FALSE, map |-> EmptyArgTypes]
  ELSE [has |-> TRUE, map |-> EventsReduce(data.items, options, 1, EmptyArgTypes)]

MethodDescriptor(item) ==
  [Descriptor(Name(item.name), item.docs, "null", "methods")
     EXCEPT !.typeName = "void", !.tableTypeSummary = item.signature]

RECURSIVE MethodsReduce(_, _, _, _)
MethodsReduce(data, options, i, acc) ==
  IF i > Len(data) THEN acc
  ELSE MethodsReduce(data, options, i + 1,
         Put(acc, ConvertKey(MethodPrefix \o data[i].name, options),
             MethodDescriptor(data[i])))

mapMethodsData(data, options) ==
  IF ~data.has THEN [has |-> FALSE, map |-> EmptyArgTypes]
  ELSE [has |-> TRUE, map |-> MethodsReduce(data.items, options, 1, EmptyArgTypes)]

\* item.name || '_default' ; a slot's name is an optional property
SlotName(item) == IF item.name.has /\ item.name.s # <<>> THEN item.name.s ELSE DefaultSlot

SlotDescriptor(item) ==
  [Descriptor(item.name, item.docs, "null", "slots")
     EXCEPT !.required = "false", !.typeName = "void", !.tableTypeName = "void"]

RECURSIVE SlotsReduce(_, _, _, _)
SlotsReduce(data, options, i, acc) ==
  IF i > Len(data) THEN acc
  ELSE SlotsReduce(data, options, i + 1,
         Put(acc, ConvertKey(SlotPrefix \o SlotName(data[i]), options),
             SlotDescriptor(data[i])))

mapSlotsData(data, options) ==
  IF ~data.has THEN [has |-> FALSE, map |-> EmptyArgTypes]
  ELSE [has |-> TRUE, map |-> SlotsReduce(data.items, options, 1, EmptyArgTypes)]

GenericDescriptor(item, category) ==
  [Descriptor(Name(item.name), item.docs, "null", category)
     EXCEPT !.required = "false", !.typeName = "void", !.tableTypeName = "void"]

RECURSIVE GenericReduce(_, _, _, _, _, _)
GenericReduce(data, categoryKey, category, options, i, acc) ==
  IF i > Len(data) THEN acc
  ELSE GenericReduce(data, categoryKey, category, options, i + 1,
         Put(acc, ConvertKey(categoryKey \o <<"-">> \o data[i].name, options),
             GenericDescriptor(data[i], category)))

\* categoryKey is the category as text, category the same label kept opaque
mapGenericData(data, categoryKey, category, options) ==
  IF ~data.has THEN [has |-> FALSE, map |-> EmptyArgTypes]
  ELSE [has |-> TRUE,
        map |-> GenericReduce(data.items, categoryKey, category, options, 1, EmptyArgTypes)]

----------------------------------------------------------------------------
(* Public entry points (as functions of the document they are given).      *)

\* { ...acc, ...m }: spreading undefined adds nothing
Spread(acc, m) ==
  IF ~m.has THEN acc
  ELSE [k \in DOMAIN acc \cup DOMAIN m.map |->
          IF k \in DOMAIN m.map THEN m.map[k] ELSE acc[k]]

\* variant: the events are spread before the props
MergeFacetsEventsFirst(metaData, options) ==
  Spread(Spread(Spread(Spread(Spread(Spread(EmptyArgTypes,
    mapEventsData(metaData.events, options)),
    mapPropsData(metaData.props, options)),
    mapMethodsData(metaData.methods, options)),
    mapSlotsData(metaData.slots, options)),
    mapGenericData(metaData.styles, StylesCategoryKey, StylesCategory, options)),
    mapGenericData(metaData.parts, PartsCategoryKey, PartsCategory, options))

MergeFacets(metaData, options) ==
  Spread(Spread(Spread(Spread(Spread(Spread(EmptyArgTypes,
    mapPropsData(metaData.props, options)),
    mapEventsData(metaData.events, options)),
    mapMethodsData(metaData.methods, options)),
    mapSlotsData(metaData.slots, options)),
    mapGenericData(metaData.styles, StylesCategoryKey, StylesCategory, options)),
    mapGenericData(metaData.parts, PartsCategoryKey, PartsCategory, options))

extractArgTypesFromElements(tagName, stencilDocJson, options) ==
  LET m == getMetaData(tagName, stencilDocJson)
  IN  IF m.kind = "throw" \/ m.val # "value" THEN m
      ELSE [m EXCEPT !.argTypes = MergeFacets(m.metaData, options)]

\* { dashCase: false, ...options }
FactoryOptions(options) == IF options.has THEN options ELSE DashCase("false")

\* variant: metaData && (metaData.docs || metaData.readme)
DescriptionOfDocsFirst(stencilDocJson, tagName) ==
  LET m == getMetaData(tagName, stencilDocJson)
  IN  IF m.kind = "throw" \/ m.val # "value" THEN m
      ELSE LET md == m.metaData
               r  == IF md.docs.has /\ md.docs.text # "" THEN md.docs ELSE md.readme
           IN  [m EXCEPT !.text = r, !.val = IF r.has THEN "value" ELSE "undefined"]

\* metaData && (metaData.readme || metaData.docs)
DescriptionOf(stencilDocJson, tagName) ==
  LET m == getMetaData(tagName, stencilDocJson)
  IN  IF m.kind = "throw" \/ m.val # "value" THEN m
      ELSE LET md == m.metaData
               r  == IF md.readme.has /\ md.readme.text # "" THEN md.readme ELSE md.docs
           IN  [m EXCEPT !.text = r, !.val = IF r.has THEN "value" ELSE "undefined"]

----------------------------------------------------------------------------
(* Inputs.                                                                 *)

MyCard      == <<"m","y","-","c","a","r","d">>
MyCardUpper == <<"M","Y","-","C","A","R","D">>
MyCardMixed == <<"M","y","-","C","a","r","d">>
XB          == <<"x","-","b">>
Nope        == <<"n","o","p","e">>
Title       == <<"t","i","t","l","e">>
CardClick   == <<"c","a","r","d","C","l","i","c","k">>
MyEvent     == <<"m","y","E","v","e","n","t">>
Go          == <<"g","o">>

Prop(name, attr, type, values) ==
  [name |-> name, attr |-> attr, type |-> type, docs |-> "prop docs",
   required |-> TRUE, default |-> "Hi", values |-> values]
Event(event)  == [event |-> event, docs |-> "event docs", detail |-> "any"]
Method(name)  == [name |-> name, docs |-> "method docs", signature |-> "() => void"]
Slot(name)    == [name |-> name, docs |-> "slot docs"]
Generic(name) == [name |-> name, docs |-> "generic docs"]

Component(tag, readme, docs, props, events) ==
  [NoComponent EXCEPT !.tag = tag, !.readme = readme, !.docs = docs,
                      !.props = props, !.events = events]

\* the card of the README example and three records that differ from it in
\* the letter case of the tag or in what readme and docs hold
Card      == Component(MyCard, Text("card readme"), Text("card docs"),
                       List(<<Prop(Title, Name(Title), "string", <<>>)>>),
                       List(<<Event(CardClick)>>))
CardUpper == Component(MyCardUpper, NoText, Text("upper docs"), NoList, NoList)
CardMixed == Component(MyCardMixed, Text(""), Text("mixed docs"), List(<<>>), NoList)
Button    == Component(XB, NoText, NoText, NoList, List(<<Event(Go)>>))

Components == {Card, CardUpper, CardMixed, Button}

MaxComponents == 2

SeqsUpTo(S, n) == UNION {[1..k -> S] : k \in 0..n}

\* documents that are not a valid stencil doc json, absent ones first
AbsentDocs    == {UndefinedDoc, NullDoc, NumDoc(0)}
MalformedDocs == {NumDoc(5), ObjDoc(NoComponents), ObjDoc(ZeroComponents),
                  ObjDoc(ObjectComponents)}
ValidDocs     == {ObjDoc(ArrayComponents(cs)) : cs \in SeqsUpTo(Components, MaxComponents)}
Docs          == AbsentDocs \cup MalformedDocs \cup ValidDocs

AbsentTagNames  == {Undefined, Null, Str(<<>>), Num(0)}
NonTextTagNames == {Num(5), Obj}
TextTagNames    == {Str(MyCard), Str(MyCardUpper), Str(MyCardMixed), Str(XB), Str(Nope)}
TagNames        == AbsentTagNames \cup NonTextTagNames \cup TextTagNames

Options == {NoOptions, DashCase("true"), DashCase("false"), DashCase("yes")}

\* the inputs of the entry points that work on the global slot
SlotDocs == {UndefinedDoc, ObjDoc(NoComponents),
             ObjDoc(ArrayComponents(<<>>)),
             ObjDoc(ArrayComponents(<<Card, Button>>)),
             ObjDoc(ArrayComponents(<<CardUpper, Card>>)),
             ObjDoc(ArrayComponents(<<CardMixed>>))}
SlotTagNames == {Undefined, Str(<<>>), Num(5), Str(MyCard), Str(XB), Str(Nope)}
SlotOptions  == {NoOptions, DashCase("true"), DashCase("false")}

----------------------------------------------------------------------------
(* The state machine of the module.                                        *)
(*   docJson    window.__STORYBOOK_STENCIL_DOC_JSON__                      *)
(*   lastSet    history: the argument of the latest setStencilDocJson     *)
(*   extractor  the closure the host got from its latest call of           *)
(*              extractArgTypesFactory; createdWith is history, the slot   *)
(*              at that moment (the closure itself holds only options)     *)
(*   lastCall   the latest call of an entry point and its completion       *)

NoExtractor == [made |-> FALSE, options |-> NoOptions, createdWith |-> UndefinedDoc]

\* export const extractArgTypes = extractArgTypesFactory(), made at load time
extractArgTypes == [made |-> TRUE, options |-> NoOptions, createdWith |-> UndefinedDoc]

Returned == Completion("return", "", "undefined", NoComponent, EmptyArgTypes, NoText, 0)

Call(op, tagName, doc, options, result) ==
  [op |-> op, tagName |-> tagName, doc |-> doc, options |-> options, result |-> result]

\* variant: a document that fails the validator is not stored
StoreDocJsonIfValid(old, stencilDocJson) ==
  IF isValidMetaData(stencilDocJson) = "throw" THEN old ELSE stencilDocJson

\* window.__STORYBOOK_STENCIL_DOC_JSON__ = stencilDocJson
StoreDocJson(old, stencilDocJson) == stencilDocJson

\* variant: the closure keeps the document it found when it was made
ClosureDocumentAtCreation(current, atCreation) == atCreation

\* the document a closure works on: getStencilDocJson() at the time of the call
ClosureDocument(current, atCreation) == current

Init ==
  /\ docJson = UndefinedDoc
  /\ lastSet = UndefinedDoc
  /\ extractor = NoExtractor
  /\ lastCall = Call("load", Undefined, UndefinedDoc, NoOptions, Returned)

SetStencilDocJson(stencilDocJson) ==
  /\ docJson' = StoreDocJson(docJson, stencilDocJson)
  /\ lastSet' = stencilDocJson
  /\ lastCall' = Call("setStencilDocJson", Undefined, stencilDocJson, NoOptions, Returned)
  /\ UNCHANGED extractor

\* the doc field of the call is the document handed back
GetStencilDocJson ==
  /\ lastCall' = Call("getStencilDocJson", Undefined, docJson, NoOptions, Returned)
  /\ UNCHANGED <<docJson, lastSet, extractor>>

ExtractArgTypesFromElements(tagName, stencilDocJson, options) ==
  /\ lastCall' = Call("extractArgTypesFromElements", tagName, stencilDocJson, options,
                      extractArgTypesFromElements(tagName, stencilDocJson, options))
  /\ UNCHANGED <<docJson, lastSet, extractor>>

ExtractArgTypesFactory(options) ==
  /\ extractor' = [made |-> TRUE, options |-> options, createdWith |-> docJson]
  /\ lastCall' = Call("extractArgTypesFactory", Undefined, docJson, options, Returned)
  /\ UNCHANGED <<docJson, lastSet>>

\* a call of a closure the factory made; the doc field is the document it read
CallClosure(op, closure, tagName) ==
  LET doc == ClosureDocument(docJson, closure.createdWith)
  IN  /\ lastCall' = Call(op, tagName, doc, closure.options,
                          extractArgTypesFromElements(tagName, doc,
                                                      FactoryOptions(closure.options)))
      /\ UNCHANGED <<docJson, lastSet, extractor>>

CallExtractor(tagName) ==
  /\ extractor.made
  /\ CallClosure("extractor", extractor, tagName)

CallExtractArgTypes(tagName) == CallClosure("extractArgTypes", extractArgTypes, tagName)

ExtractComponentDescription(tagName) ==
  /\ lastCall' = Call("extractComponentDescription", tagName, docJson, NoOptions,
                      DescriptionOf(docJson, tagName))
  /\ UNCHANGED <<docJson, lastSet, extractor>>

Next ==
  \/ \E d \in SlotDocs : SetStencilDocJson(d)
  \/ GetStencilDocJson
  \/ \E t \in SlotTagNames, d \in SlotDocs, o \in SlotOptions :
        ExtractArgTypesFromElements(t, d, o)
  \/ \E o \in SlotOptions : ExtractArgTypesFactory(o)
  \/ \E t \in SlotTagNames : CallExtractor(t)
  \/ \E t \in SlotTagNames : CallExtractArgTypes(t)
  \/ \E t \in SlotTagNames : ExtractComponentDescription(t)

Spec == Init /\ [][Next]_vars

----------------------------------------------------------------------------
(* Specifications of the pure functions: Init draws the inputs of one call *)
(* that is about to be made (op = "pending") in a state where the document *)
(* is the registered one and a closure over the options exists; the        *)
(* actions make the call through each entry point.                         *)

Pending(tagName, doc, options) ==
  /\ docJson = doc
  /\ lastSet = doc
  /\ extractor = [made |-> TRUE, options |-> options, createdWith |-> UndefinedDoc]
  /\ lastCall = Call("pending", tagName, doc, options, Returned)

PendingDirect ==
  /\ lastCall.op = "pending"
  /\ ExtractArgTypesFromElements(lastCall.tagName, lastCall.doc, lastCall.options)

PendingExtractor ==
  /\ lastCall.op = "pending"
  /\ CallExtractor(lastCall.tagName)

PendingDescription ==
  /\ lastCall.op = "pending"
  /\ ExtractComponentDescription(lastCall.tagName)

PureNext == PendingDirect \/ PendingExtractor \/ PendingDescription

\* lookup: every tag name against every document
InitLookup ==
  \E t \in TagNames, d \in Docs, o \in {NoOptions, DashCase("true")} : Pending(t, d, o)

SpecLookup == InitLookup /\ [][PureNext]_vars

\* a document holding the one component
DocOf(component) == ObjDoc(ArrayComponents(<<component>>))

\* control mapping: one prop of every type with every list of permitted values
MaxValues == 5

PropTypes  == {"string", "number", "boolean", "function", "void", "any", "union"}
PropValues == {[type |-> "string",  value |-> StrLit("a")],
               [type |-> "string",  value |-> NoLit],
               [type |-> "number",  value |-> NumLit(1)],
               [type |-> "boolean", value |-> BoolLit("true")]}

InitProp ==
  \E type \in PropTypes, values \in SeqsUpTo(PropValues, MaxValues) :
     Pending(Str(MyCard),
             DocOf(Component(MyCard, NoText, NoText,
                             List(<<Prop(Title, NoName, type, values)>>), NoList)),
             NoOptions)

SpecProp == InitProp /\ [][PureNext]_vars

\* key derivation: one item of every facet with every short name
MaxNameLen == 3

NameAlphabet == {"a", "B", "1", "-"}
Names == SeqsUpTo(NameAlphabet, MaxNameLen) \cup {MyEvent, CardClick, DefaultSlot}

Bare == Component(MyCard, NoText, NoText, NoList, NoList)

KeyComponents(name) ==
  {[Bare EXCEPT !.props   = List(<<Prop(Title, Name(name), "string", <<>>)>>)],
   [Bare EXCEPT !.props   = List(<<Prop(name, NoName, "string", <<>>)>>)],
   [Bare EXCEPT !.events  = List(<<Event(name)>>)],
   [Bare EXCEPT !.methods = List(<<Method(name)>>)],
   [Bare EXCEPT !.slots   = List(<<Slot(Name(name))>>)],
   [Bare EXCEPT !.slots   = List(<<Slot(NoName)>>)],
   [Bare EXCEPT !.styles  = List(<<Generic(name)>>)],
   [Bare EXCEPT !.parts   = List(<<Generic(name)>>)]}

InitKey ==
  \E name \in Names, o \in Options :
    \E c \in KeyComponents(name) : Pending(Str(MyCard), DocOf(c), o)

SpecKey == InitKey /\ [][PureNext]_vars

\* merge: one component whose facets are each absent, empty or hold items
\* whose keys meet those of other facets
EventGo   == <<"e","v","e","n","t","-","g","o">>
MethodGo  == <<"m","e","t","h","o","d","G","o">>
SlotGo    == <<"s","l","o","t","_","g","o">>
PartsGo   == <<"c","s","s","-","s","h","a","d","o","w","-","p","a","r","t","s","-","g","o">>

PropLists   == {NoList, List(<<>>),
                List(<<Prop(Title, Name(EventGo), "string", <<>>)>>),
                List(<<Prop(MethodGo, NoName, "number", <<>>), Prop(Title, NoName, "string", <<>>)>>),
                List(<<Prop(SlotGo, NoName, "boolean", <<>>), Prop(PartsGo, NoName, "void", <<>>)>>)}
EventLists  == {NoList, List(<<Event(Go)>>), List(<<Event(Go), Event(CardClick)>>)}
MethodLists == {NoList, List(<<Method(Go)>>)}
SlotLists   == {NoList, List(<<Slot(Name(Go))>>), List(<<Slot(NoName), Slot(Name(<<>>))>>)}
StyleLists  == {NoList, List(<<Generic(Go)>>)}
PartLists   == {NoList, List(<<Generic(Go)>>)}

InitMerge ==
  \E props \in PropLists, events \in EventLists, methods \in MethodLists,
     slots \in SlotLists, styles \in StyleLists, parts \in PartLists,
     o \in {NoOptions, DashCase("true"), DashCase("false")} :
    Pending(Str(MyCardUpper),
            DocOf([Bare EXCEPT !.props = props, !.events = events, !.methods = methods,
                               !.slots = slots, !.styles = styles, !.parts = parts]),
            o)

SpecMerge == InitMerge /\ [][PureNext]_vars

----------------------------------------------------------------------------
(* Vocabulary of the properties.                                           *)

ExtractOps   == {"extractArgTypesFromElements", "extractor", "extractArgTypes"}
ResolvingOps == ExtractOps \cup {"extractComponentDescription"}

AbsentTag(t)  == ~Truthy(t)
TextTag(t)    == t.t = "string" /\ t.s # <<>>
NonTextTag(t) == Truthy(t) /\ t.t # "string"

AbsentDoc(d)    == ~DocTruthy(d)
ListTyped(d)    == d.t = "object" /\ d.components.t = "array"
MalformedDoc(d) == DocTruthy(d) /\ ~ListTyped(d)

ReturnedAbsent(r) == r.kind = "return" /\ r.val \in {"null", "undefined"}

SameIgnoringCase(a, b) == toLowerCase(a) = toLowerCase(b)

\* index of the first component whose tag is the tag name but for letter case
FirstMatch(d, t) ==
  LET cs   == d.components.items
      hits == {i \in 1..Len(cs) : SameIgnoringCase(cs[i].tag, t.s)}
  IN  IF hits = {} THEN 0 ELSE CHOOSE i \in hits : \A j \in hits : i <= j

----------------------------------------------------------------------------
\* C1: a call of a closure made by extractArgTypesFactory (the exported
\* extractArgTypes included) gives what extractArgTypesFromElements gives for
\* the same tag name, the document registered last before the call and the
\* options the closure was made with, whatever the slot held when it was made.
C1_ExtractorReadsCurrentDocument ==
  lastCall.op \in {"extractor", "extractArgTypes"} =>
    lastCall.result =
      extractArgTypesFromElements(lastCall.tagName, lastSet, lastCall.options)

\* the closure was made under another document than the one it was called
\* under, and the call resolved a component the earlier document would not give
C1_Witness ==
  /\ lastCall.op = "extractor"
  /\ extractor.createdWith # lastSet
  /\ lastCall.result.val = "value"
  /\ DOMAIN lastCall.result.argTypes # {}
  /\ lastCall.result #
       extractArgTypesFromElements(lastCall.tagName, extractor.createdWith,
                                   lastCall.options)

\* C2: the slot always holds the argument of the latest setStencilDocJson
\* (undefined before the first), getStencilDocJson hands back that value, and
\* setStencilDocJson returns without raising whatever it is given.
C2_SlotIsLastWrite ==
  /\ docJson = lastSet
  /\ lastCall.op = "getStencilDocJson" =>
       lastCall.doc = lastSet /\ lastCall.result.kind = "return"
  /\ lastCall.op = "setStencilDocJson" =>
       lastCall.doc = docJson /\ lastCall.result.kind = "return"

\* a malformed document was stored as given, and a call that raised on it
\* left it in the slot
C2_Witness ==
  /\ lastCall.op = "extractComponentDescription"
  /\ lastCall.result.kind = "throw"
  /\ lastCall.result.error = MetaDataMessage
  /\ docJson = ObjDoc(NoComponents)

\* C3 (as stated): a document that is set but has no list of components makes
\* the resolution raise the meta data error for every tag name.
C3_MalformedDocumentAlwaysThrows ==
  (lastCall.op \in ResolvingOps /\ MalformedDoc(lastCall.doc)) =>
    (lastCall.result.kind = "throw" /\ lastCall.result.error = MetaDataMessage)

\* C3 (amended): it does so for every non-empty text tag name.
C3_MalformedDocumentThrowsForTextTag ==
  (lastCall.op \in ResolvingOps /\ MalformedDoc(lastCall.doc)
     /\ TextTag(lastCall.tagName)) =>
    (lastCall.result.kind = "throw" /\ lastCall.result.error = MetaDataMessage)

C3_Witness ==
  /\ lastCall.op = "extractArgTypesFromElements"
  /\ lastCall.doc = ObjDoc(ObjectComponents)
  /\ lastCall.tagName = Str(MyCard)
  /\ lastCall.result.kind = "throw"
  /\ lastCall.result.error = MetaDataMessage

\* C4 (as stated): an absent tag name or an absent document makes the
\* resolution return absent, without raising and without a warning, whatever
\* the other input is.
C4_AbsentInputAlwaysReturnsAbsent ==
  (lastCall.op \in ResolvingOps
     /\ (AbsentTag(lastCall.tagName) \/ AbsentDoc(lastCall.doc))) =>
    (ReturnedAbsent(lastCall.result) /\ lastCall.result.warnings = 0)

\* C4 (amended): an absent tag name does so whatever the document is, an absent
\* document does so when the tag name is absent or text.
C4_AbsentInputReturnsAbsent ==
  (lastCall.op \in ResolvingOps
     /\ (AbsentTag(lastCall.tagName)
           \/ (AbsentDoc(lastCall.doc) /\ ~NonTextTag(lastCall.tagName)))) =>
    (ReturnedAbsent(lastCall.result) /\ lastCall.result.warnings = 0)

\* an absent tag name met a malformed document and nothing was raised
C4_Witness ==
  /\ lastCall.op = "extractArgTypesFromElements"
  /\ AbsentTag(lastCall.tagName)
  /\ MalformedDoc(lastCall.doc)
  /\ ReturnedAbsent(lastCall.result)
  /\ lastCall.result.warnings = 0

\* C5: a tag name that is set and is not text makes the resolution raise the
\* tag name error whatever the document is, and that error is not the one
\* raised for a malformed document.
C5_NonTextTagNameThrows ==
  (lastCall.op \in ResolvingOps /\ NonTextTag(lastCall.tagName)) =>
    /\ lastCall.result.kind = "throw"
    /\ lastCall.result.error = TagNameMessage
    /\ lastCall.result.error # MetaDataMessage

C5_Witness ==
  /\ lastCall.op = "extractComponentDescription"
  /\ lastCall.tagName = Num(5)
  /\ MalformedDoc(lastCall.doc)
  /\ lastCall.result.kind = "throw"
  /\ lastCall.result.error = TagNameMessage

\* C6: with a text tag name and a document with a list of components, the
\* resolution finds the first component whose tag is the tag name but for
\* letter case and warns nobody; when there is none it returns absent and
\* warns exactly once.
C6_LookupIgnoresCase ==
  (lastCall.op \in ResolvingOps /\ TextTag(lastCall.tagName)
     /\ ListTyped(lastCall.doc)) =>
    LET i == FirstMatch(lastCall.doc, lastCall.tagName)
    IN  /\ lastCall.result.kind = "return"
        /\ i # 0 => /\ lastCall.result.metaData = lastCall.doc.components.items[i]
                    /\ lastCall.result.warnings = 0
                    /\ lastCall.op \in ExtractOps => lastCall.result.val = "value"
        /\ i = 0 => /\ ReturnedAbsent(lastCall.result)
                    /\ lastCall.result.metaData = NoComponent
                    /\ lastCall.result.warnings = 1

\* two components match but for letter case and the first one is found,
\* though the second one has the tag as written
C6_Witness ==
  /\ lastCall.op = "extractArgTypesFromElements"
  /\ lastCall.tagName = Str(MyCard)
  /\ lastCall.doc = ObjDoc(ArrayComponents(<<CardUpper, Card>>))
  /\ lastCall.result.metaData = CardUpper
  /\ lastCall.result.warnings = 0

----------------------------------------------------------------------------
(* Properties of the mappers.                                              *)

\* the permitted values whose own type is string or number, in order
RECURSIVE Qualifying(_)
Qualifying(values) ==
  IF values = <<>> THEN <<>>
  ELSE (IF Head(values).type = "string" \/ Head(values).type = "number"
        THEN <<Head(values).value>> ELSE <<>>) \o Qualifying(Tail(values))

\* the one prop of the one component of the document of the call
TheProp == lastCall.doc.components.items[1].props.items[1]

\* C7: every prop gets a descriptor; string, number and boolean props get the
\* text, number and boolean control, function and void props get none, and
\* none of these gets options; a prop of another type gets as options the
\* literal values, in order, of its permitted values of type string or number,
\* with an object control for none, radio for 1 to 4 and select for 5 or more.
C7_ControlMapping ==
  lastCall.op \in ExtractOps =>
    /\ lastCall.result.kind = "return"
    /\ lastCall.result.val = "value"
    /\ DOMAIN lastCall.result.argTypes = {Title}
    /\ LET d == lastCall.result.argTypes[Title]
           n == Len(Qualifying(TheProp.values))
       IN  CASE TheProp.type = "string"  -> d.control = "text" /\ ~d.hasOptions
             [] TheProp.type = "number"  -> d.control = "number" /\ ~d.hasOptions
             [] TheProp.type = "boolean" -> d.control = "boolean" /\ ~d.hasOptions
             [] TheProp.type \in {"function", "void"} ->
                  d.control = "null" /\ ~d.hasOptions
             [] OTHER ->
                  /\ d.hasOptions
                  /\ d.options = Qualifying(TheProp.values)
                  /\ n = 0 => d.control = "object"
                  /\ n \in 1..4 => d.control = "radio"
                  /\ n >= 5 => d.control = "select"

\* five permitted values qualify and the prop gets a select control
C7_Witness ==
  /\ lastCall.op = "extractArgTypesFromElements"
  /\ TheProp.type = "union"
  /\ Len(Qualifying(TheProp.values)) = 5
  /\ lastCall.result.argTypes[Title].control = "select"
  /\ Len(lastCall.result.argTypes[Title].options) = 5

\* the six facet mappings of the resolved component, in the order of the merge
FacetMaps(metaData, options) ==
  <<mapPropsData(metaData.props, options),
    mapEventsData(metaData.events, options),
    mapMethodsData(metaData.methods, options),
    mapSlotsData(metaData.slots, options),
    mapGenericData(metaData.styles, StylesCategoryKey, StylesCategory, options),
    mapGenericData(metaData.parts, PartsCategoryKey, PartsCategory, options)>>

KeysOf(m) == IF m.has THEN DOMAIN m.map ELSE {}

DashCaseOfCall == lastCall.options.dashCase = "true"

\* C8: the result of an extraction has the keys of the six facet mappings
\* together, each with the descriptor of the last facet, in the order props,
\* events, methods, slots, styles, parts, that has the key; a facet whose list
\* is absent gives no key and the call does not raise.
C8_MergeOrder ==
  (lastCall.op \in ExtractOps /\ ListTyped(lastCall.doc) /\ TextTag(lastCall.tagName)
     /\ FirstMatch(lastCall.doc, lastCall.tagName) # 0) =>
    LET r == lastCall.result
        F == FacetMaps(r.metaData,
                       DashCase(IF DashCaseOfCall THEN "true" ELSE "false"))
    IN  /\ r.kind = "return"
        /\ r.val = "value"
        /\ DOMAIN r.argTypes = UNION {KeysOf(F[i]) : i \in 1..6}
        /\ \A k \in DOMAIN r.argTypes :
             \E i \in 1..6 :
                /\ k \in KeysOf(F[i])
                /\ \A j \in (i + 1)..6 : k \notin KeysOf(F[j])
                /\ r.argTypes[k] = F[i].map[k]
        /\ \A i \in 1..6 : ~F[i].has => KeysOf(F[i]) = {}

\* a prop and an event derive the same key, the event's descriptor is the
\* one in the result, and the methods list is absent
C8_Witness ==
  /\ lastCall.op = "extractArgTypesFromElements"
  /\ lastCall.result.val = "value"
  /\ lastCall.result.metaData.props = List(<<Prop(Title, Name(EventGo), "string", <<>>)>>)
  /\ lastCall.result.metaData.events = List(<<Event(Go)>>)
  /\ ~lastCall.result.metaData.methods.has
  /\ ~DashCaseOfCall
  /\ DOMAIN lastCall.result.argTypes = {<<"e","v","e","n","t","G","o">>}
  /\ lastCall.result.argTypes[<<"e","v","e","n","t","G","o">>].category = "events"

\* the letters and digits of a text, in lower case
AlphaNumeric(s) ==
  toLowerCase(SelectSeq(s, LAMBDA c : c \in LowerSet \cup UpperSet \cup DigitChars))

\* lower-case words and digits with single hyphens between them
KebabShape(k) ==
  /\ \A i \in 1..Len(k) : k[i] \in LowerSet \cup DigitChars \cup {"-"}
  /\ k # <<>> => k[1] # "-" /\ k[Len(k)] # "-"
  /\ \A i \in 1..(Len(k) - 1) : ~(k[i] = "-" /\ k[i + 1] = "-")

\* letters and digits only, not starting with a capital
CamelShape(k) ==
  /\ \A i \in 1..Len(k) : k[i] \in LowerSet \cup UpperSet \cup DigitChars
  /\ k # <<>> => k[1] \notin UpperSet

\* the raw keys of a component; a prop gives its attr when attrSet(prop) holds
RawKeys(metaData, attrSet(_)) ==
  LET from(list, raw(_)) == {raw(list.items[i]) : i \in 1..Len(list.items)}
  IN  from(metaData.props, LAMBDA p : IF attrSet(p) THEN p.attr.s ELSE p.name)
      \cup from(metaData.events, LAMBDA e : EventPrefix \o e.event)
      \cup from(metaData.methods, LAMBDA m : MethodPrefix \o m.name)
      \cup from(metaData.slots, LAMBDA x :
                  SlotPrefix \o (IF x.name.has /\ x.name.s # <<>> THEN x.name.s
                                 ELSE DefaultSlot))
      \cup from(metaData.styles, LAMBDA x : StylesCategoryKey \o <<"-">> \o x.name)
      \cup from(metaData.parts, LAMBDA x : PartsCategoryKey \o <<"-">> \o x.name)

EventMyEventCamel == <<"e","v","e","n","t","M","y","E","v","e","n","t">>
EventMyEventKebab == <<"e","v","e","n","t","-","m","y","-","e","v","e","n","t">>
SlotDefaultCamel  == <<"s","l","o","t","D","e","f","a","u","l","t">>
SlotDefaultKebab  == <<"s","l","o","t","-","d","e","f","a","u","l","t">>

\* the keys of the result are the raw keys, in the shape dashCase asks for
KeysFollow(attrSet(_)) ==
  (lastCall.op \in ExtractOps /\ lastCall.result.kind = "return"
     /\ lastCall.result.val = "value") =>
    LET keys == DOMAIN lastCall.result.argTypes
        raws == RawKeys(lastCall.result.metaData, attrSet)
    IN  /\ \A k \in keys :
             /\ IF DashCaseOfCall THEN KebabShape(k) ELSE CamelShape(k)
             /\ \E r \in raws : AlphaNumeric(k) = AlphaNumeric(r)
        /\ \A r \in raws : \E k \in keys : AlphaNumeric(k) = AlphaNumeric(r)
        /\ (EventPrefix \o MyEvent) \in raws =>
             (IF DashCaseOfCall THEN EventMyEventKebab ELSE EventMyEventCamel) \in keys
        /\ (SlotPrefix \o DefaultSlot) \in raws =>
             (IF DashCaseOfCall THEN SlotDefaultKebab ELSE SlotDefaultCamel) \in keys

\* C9 (as stated): every key is the raw key of its facet (for a prop the attr
\* if the item has one, else the name) as hyphen-separated lower-case words
\* when dashCase is true and in lower camel case otherwise, also through a
\* closure of the factory made without dashCase.
C9_KeyOfAttrIfPresent == KeysFollow(LAMBDA p : p.attr.has)

\* C9 (amended): for a prop the attr if the item has a non-empty one.
C9_KeyOfAttrIfNonEmpty == KeysFollow(LAMBDA p : p.attr.has /\ p.attr.s # <<>>)

\* a closure made without dashCase gives the event myEvent the camel case key
C9_Witness ==
  /\ lastCall.op = "extractor"
  /\ ~lastCall.options.has
  /\ lastCall.result.metaData.events = List(<<Event(MyEvent)>>)
  /\ DOMAIN lastCall.result.argTypes = {EventMyEventCamel}

\* the component the description is taken from, resolved as C6 states
Resolved == lastCall.doc.components.items[FirstMatch(lastCall.doc, lastCall.tagName)]

Resolvable ==
  /\ TextTag(lastCall.tagName)
  /\ ListTyped(lastCall.doc)
  /\ FirstMatch(lastCall.doc, lastCall.tagName) # 0

\* the component cannot be resolved: absent tag, no registered document, or
\* no matching component
Unresolvable ==
  \/ AbsentTag(lastCall.tagName)
  \/ AbsentDoc(lastCall.doc)
  \/ /\ TextTag(lastCall.tagName)
     /\ ListTyped(lastCall.doc)
     /\ FirstMatch(lastCall.doc, lastCall.tagName) = 0

\* C10 (as stated): extractComponentDescription works on the registered
\* document and returns the readme of the component when it has one, its docs
\* when it has no readme, and absent when the component cannot be resolved.
C10_ReadmeIfPresent ==
  lastCall.op = "extractComponentDescription" =>
    /\ lastCall.doc = lastSet
    /\ Unresolvable => ReturnedAbsent(lastCall.result)
    /\ (~Unresolvable /\ Resolvable) =>
         /\ lastCall.result.kind = "return"
         /\ Resolved.readme.has => lastCall.result.text = Resolved.readme
         /\ ~Resolved.readme.has => lastCall.result.text = Resolved.docs

\* C10 (amended): for a tag name that is absent or text, it returns the readme
\* when that is a non-empty text, the docs when the readme is absent or empty,
\* and absent when the component cannot be resolved.
C10_ReadmeIfNonEmpty ==
  (lastCall.op = "extractComponentDescription" /\ ~NonTextTag(lastCall.tagName)) =>
    /\ lastCall.doc = lastSet
    /\ Unresolvable => ReturnedAbsent(lastCall.result)
    /\ (~Unresolvable /\ Resolvable) =>
         /\ lastCall.result.kind = "return"
         /\ (Resolved.readme.has /\ Resolved.readme.text # "") =>
              lastCall.result.text = Resolved.readme
         /\ ~(Resolved.readme.has /\ Resolved.readme.text # "") =>
              lastCall.result.text = Resolved.docs

\* a component with a readme and docs was resolved and the readme returned
C10_Witness ==
  /\ lastCall.op = "extractComponentDescription"
  /\ lastCall.tagName = Str(MyCard)
  /\ lastCall.result.metaData = Card
  /\ lastCall.result.text = Text("card readme")
  /\ lastSet = docJson

====
